---- MODULE Spec2Model ----
(***************************************************************************)
(* A model of transform.mjs, the filter list transformer of index-kr:      *)
(* the filter line parser (parseFilter, parseNetworkFilter,                *)
(* parseCosmeticFilter), the hostname extractor                            *)
(* (transformToHostnamePattern), the hosts compiler (compileHosts) and the *)
(* formatter (format, fix, check).                                         *)
(*                                                                         *)
(* A JavaScript string is a sequence of one-character strings.  Offsets    *)
(* are the 0-based offsets of the source; CharCodeAt and Slice carry the   *)
(* semantics of String.prototype.charCodeAt and String.prototype.slice.    *)
(***************************************************************************)
EXTENDS Integers, Sequences, FiniteSets, TLC

VARIABLES
  line,        \* parseFilter / check: the line being processed
  details,     \* the record parseFilter returned for line
  diffs,       \* format's edit list, re-based in place by fix
  text,        \* fix: the local `line`, rewritten edit by edit
  di,          \* fix: the index i of the outer loop
  rediffs,     \* format(parseFilter(text)) of the corrected line
  pc,          \* position of the running program
  list,        \* compileHosts: the lines of the input, list.split('\n')
  pos,         \* compileHosts: number of lines folded so far
  hostnames,   \* compileHosts: the Set hostnames, in insertion order
  exceptions,  \* compileHosts: the Set exceptions, in insertion order
  logged,      \* compileHosts: number of console.error reports
  strict,      \* opts.strict
  output       \* compileHosts: the returned lines

vars == <<line, details, diffs, text, di, rediffs, pc,
          list, pos, hostnames, exceptions, logged, strict, output>>

(***************************************************************************)
(* Bounds of the model.                                                    *)
(***************************************************************************)
MaxParseTokens == 5
MaxCheckTokens == 5
MaxLines == 3

(***************************************************************************)
(* JavaScript values.                                                      *)
(***************************************************************************)
Null == <<"null">>
NaN == -1
IsNaN(c) == c = NaN

DEL == "DEL"

CharCodes ==
  (" " :> 32) @@ ("!" :> 33) @@ ("#" :> 35) @@ ("$" :> 36) @@ ("&" :> 38) @@
  ("*" :> 42) @@ ("," :> 44) @@ ("-" :> 45) @@ ("." :> 46) @@ ("/" :> 47) @@
  ("0" :> 48) @@ ("1" :> 49) @@ ("2" :> 50) @@ ("3" :> 51) @@ ("4" :> 52) @@
  ("5" :> 53) @@ ("6" :> 54) @@ ("7" :> 55) @@ ("8" :> 56) @@ ("9" :> 57) @@
  (":" :> 58) @@ ("=" :> 61) @@ ("?" :> 63) @@ ("@" :> 64) @@ ("[" :> 91) @@
  ("\\" :> 92) @@ ("^" :> 94) @@ ("a" :> 97) @@ ("b" :> 98) @@ ("c" :> 99) @@
  ("d" :> 100) @@ ("e" :> 101) @@ ("f" :> 102) @@ ("h" :> 104) @@
  ("i" :> 105) @@ ("l" :> 108) @@ ("m" :> 109) @@ ("p" :> 112) @@
  ("q" :> 113) @@ ("r" :> 114) @@ ("s" :> 115) @@ ("t" :> 116) @@
  ("u" :> 117) @@ ("x" :> 120) @@ ("y" :> 121) @@ ("|" :> 124) @@
  (DEL :> 127)

\* String.prototype.charCodeAt: NaN outside the string.
CharCodeAt(s, i) ==
  IF i >= 0 /\ i < Len(s) THEN CharCodes[s[i + 1]] ELSE NaN

\* The relative index clamping of String.prototype.slice.
SliceIndex(n, len) ==
  IF n < 0 THEN (IF len + n < 0 THEN 0 ELSE len + n)
  ELSE (IF n > len THEN len ELSE n)

\* String.prototype.slice(from, to).
Slice(s, from, to) ==
  LET a == SliceIndex(from, Len(s))
      b == SliceIndex(to, Len(s))
  IN IF a < b THEN SubSeq(s, a + 1, b) ELSE <<>>

\* String.prototype.slice(from).
SliceFrom(s, from) == Slice(s, from, Len(s))

\* String.prototype.indexOf of a one-character string.
RECURSIVE IndexOfFrom(_, _, _)
IndexOfFrom(s, ch, i) ==
  IF i >= Len(s) THEN -1
  ELSE IF s[i + 1] = ch THEN i
  ELSE IndexOfFrom(s, ch, i + 1)

IndexOf(s, ch) == IndexOfFrom(s, ch, 0)

Digits == <<"0", "1", "2", "3", "4", "5", "6", "7", "8", "9">>

\* Number.prototype.toString of an integer.
RECURSIVE NatToString(_)
NatToString(n) ==
  IF n < 10 THEN <<Digits[n + 1]>>
  ELSE Append(NatToString(n \div 10), Digits[(n % 10) + 1])

NumberToString(n) ==
  IF n < 0 THEN <<"-">> \o NatToString(0 - n) ELSE NatToString(n)

\* ToNumber of a string of decimal digits.
RECURSIVE StringToNumber(_)
StringToNumber(s) ==
  IF s = <<>> THEN 0
  ELSE 10 * StringToNumber(SubSeq(s, 1, Len(s) - 1))
       + (CharCodes[s[Len(s)]] - 48)

(***************************************************************************)
(* The value of details.markers.pattern[0]: the number -1, the array [i]   *)
(* the whitespace loop stores, or the string `+=` makes of that array.     *)
(***************************************************************************)
NumberValue(n) == [tag |-> "number", num |-> n, str |-> <<>>]
ArrayValue(n) == [tag |-> "array", num |-> n, str |-> <<>>]
StringValue(s) == [tag |-> "string", num |-> 0, str |-> s]

\* v += n, n a number: numeric addition for a number, string concatenation
\* for an array (its ToPrimitive is the string of its element) or a string.
PlusAssign(v, n) ==
  IF v.tag = "number" THEN NumberValue(v.num + n)
  ELSE IF v.tag = "array"
    THEN StringValue(NumberToString(v.num) \o NumberToString(n))
  ELSE StringValue(v.str \o NumberToString(n))

\* ToIntegerOrInfinity, as slice applies it to its arguments.
ToInteger(v) ==
  IF v.tag = "string" THEN StringToNumber(v.str) ELSE v.num

(***************************************************************************)
(* adblocker filter parser                                                 *)
(***************************************************************************)
FILTER_TYPE_OTHERS == 0
FILTER_TYPE_NETWORK == 1
FILTER_TYPE_COSMETIC == 2

\* A thrown SyntaxError, in place of the returned record.
SyntaxError(l, p) == [thrown |-> TRUE, name |-> "SyntaxError", line |-> l, pos |-> p]

isWhitespace(c) == ~IsNaN(c) /\ (c <= 32 \/ c = 127)

\* The marker loop of parseCosmeticFilter, from offset i: the offset after
\* the closing '#', the end of the line, or the offset of the offending
\* character.
RECURSIVE CosmeticMarker(_, _, _)
CosmeticMarker(l, i, exc) ==
  IF i >= Len(l) THEN [i |-> i, isException |-> exc, thrown |-> FALSE]
  ELSE IF CharCodeAt(l, i) = 64
    THEN CosmeticMarker(l, i + 1, TRUE)
  ELSE IF CharCodeAt(l, i) = 35
    THEN [i |-> i + 1, isException |-> exc, thrown |-> FALSE]
  ELSE [i |-> i, isException |-> exc, thrown |-> TRUE]

parseCosmeticFilter(l, i) ==
  LET m == CosmeticMarker(l, i + 1, FALSE)
  IN IF m.thrown THEN SyntaxError(l, m.i)
     ELSE [thrown |-> FALSE,
           type |-> FILTER_TYPE_COSMETIC,
           line |-> l,
           hostname |-> Slice(l, 0, i),
           selector |-> SliceFrom(l, m.i),
           isException |-> m.isException]

\* The whitespace loop of parseNetworkFilter (its own `let i`): the value
\* left in markers.pattern[0].
RECURSIVE SkipWhitespaces(_, _)
SkipWhitespaces(l, i) ==
  IF i >= Len(l) THEN NumberValue(-1)
  ELSE IF isWhitespace(CharCodeAt(l, i)) = FALSE THEN ArrayValue(i)
  ELSE SkipWhitespaces(l, i + 1)

\* The lookahead loop from k: stops on '=' (no jump), on '$' (jump: i = k)
\* or at the end of the line.
RECURSIVE Lookahead(_, _)
Lookahead(l, k) ==
  IF k >= Len(l) THEN [k |-> k, jump |-> FALSE]
  ELSE IF CharCodeAt(l, k) = 61 THEN [k |-> k, jump |-> FALSE]
  ELSE IF CharCodeAt(l, k) = 36 THEN [k |-> k, jump |-> TRUE]
  ELSE Lookahead(l, k + 1)

\* The scan for the modifier marker from i: the value of i after the loop.
\* After a jump i = k, so the loop does not break and its i++ steps past
\* the '$' it jumped to.
RECURSIVE FindModifierMarker(_, _)
FindModifierMarker(l, i) ==
  IF i >= Len(l) THEN i
  ELSE IF CharCodeAt(l, i) = 36
    THEN LET la == Lookahead(l, i + 1)
         IN IF la.jump THEN FindModifierMarker(l, la.k + 1) ELSE i
  ELSE FindModifierMarker(l, i + 1)

\* The value loop from i: the offset of the ',' or of the end of the line
\* that ends the value.  A backslash is skipped by itself.
RECURSIVE ValueEnd(_, _)
ValueEnd(l, i) ==
  IF i >= Len(l) + 1 THEN -1
  ELSE IF CharCodeAt(l, i) = 92 THEN ValueEnd(l, i + 1)
  ELSE IF CharCodeAt(l, i) = 44 \/ IsNaN(CharCodeAt(l, i)) THEN i
  ELSE ValueEnd(l, i + 1)

Modifier(o, v, om, vm) == [opt |-> o, val |-> v, marker |-> <<om, vm>>]

\* The modifier loop from i with k the start of the current entry.
RECURSIVE SearchModifiers(_, _, _, _)
SearchModifiers(l, i, k, mods) ==
  IF i >= Len(l) + 1 THEN mods
  ELSE IF CharCodeAt(l, i) = 61
    THEN LET e == ValueEnd(l, i + 1)
         IN IF e = -1
            THEN Append(mods, Modifier(Slice(l, k, i), Null, <<k, i>>, Null))
            ELSE SearchModifiers(l, e + 1, e + 1,
                   Append(mods, Modifier(Slice(l, k, i), Slice(l, i + 1, e),
                                         <<k, i>>, <<i + 1, e>>)))
  ELSE IF CharCodeAt(l, i) = 44
    THEN SearchModifiers(l, i + 1, i + 1,
           Append(mods, Modifier(Slice(l, k, i), Null, <<k, i>>, Null)))
  ELSE IF IsNaN(CharCodeAt(l, i)) /\ i > k
    THEN SearchModifiers(l, i + 1, k,
           Append(mods, Modifier(Slice(l, k, i), Null, <<k, i>>, Null)))
  ELSE SearchModifiers(l, i + 1, k, mods)

\* The amount added to markers.pattern[0] for the leading anchor.
AnchorWidth(boa, sub) == IF boa THEN 1 ELSE IF sub THEN 2 ELSE 0

\* markers.pattern[1] for the scan result i.
PatternEnd(l, i) == IF i = Len(l) THEN i ELSE i - 1

\* The exception check on the outer i, still 0 after the whitespace loop.
ExceptionScan(l) == CharCodeAt(l, 0) = 64 /\ CharCodeAt(l, 1) = 64

\* The pipe check at i: the flags, and the offset after the prefix.
PipeScan(l, exc, i) ==
  IF CharCodeAt(l, i) = 124
    THEN IF CharCodeAt(l, i + 1) = 124
           THEN [isException |-> exc, matchSubdomains |-> TRUE,
                 matchBeginningOfAddress |-> FALSE, i |-> i + 2]
           ELSE [isException |-> exc, matchSubdomains |-> FALSE,
                 matchBeginningOfAddress |-> TRUE, i |-> i + 1]
    ELSE [isException |-> exc, matchSubdomains |-> FALSE,
          matchBeginningOfAddress |-> FALSE, i |-> i]

\* The exception and pipe checks: the flags and the offset after the prefix.
AnchorScan(l) ==
  PipeScan(l, ExceptionScan(l), IF ExceptionScan(l) THEN 2 ELSE 0)

\* The local i once the marker scan has ended: the offset of the '$' that
\* starts the modifiers, or the length of the line.
ModifierMarker(l) == FindModifierMarker(l, AnchorScan(l).i)

\* The record returned for the flags a, the marker scan result i and the
\* pattern markers start and end.
NetworkDetails(l, a, i, start, end) ==
  [thrown |-> FALSE,
   type |-> FILTER_TYPE_NETWORK,
   pattern |-> Slice(l, ToInteger(start), end),
   line |-> l,
   modifiers |-> SearchModifiers(l, i + 1, i + 1, <<>>),
   isException |-> a.isException,
   matchSubdomains |-> a.matchSubdomains,
   matchBeginningOfAddress |-> a.matchBeginningOfAddress,
   matchEndOfAddress |-> CharCodeAt(l, i - 1) = 124,
   markers |-> [pattern |-> <<start, end>>]]

\* parseNetworkFilter from the marker scan on, a the flags of the prefix.
ParseFromMarker(l, a, i) ==
  NetworkDetails(l, a, i,
    PlusAssign(SkipWhitespaces(l, 0),
               AnchorWidth(a.matchBeginningOfAddress, a.matchSubdomains)),
    PatternEnd(l, i))

\* parseNetworkFilter from the prefix checks on.
ParseFromPrefix(l, a) == ParseFromMarker(l, a, FindModifierMarker(l, a.i))

parseNetworkFilter(l) == ParseFromPrefix(l, AnchorScan(l))

\* The classification loop of parseFilter from i.
RECURSIVE Classify(_, _)
Classify(l, i) ==
  IF i >= Len(l) THEN parseNetworkFilter(l)
  ELSE LET c == CharCodeAt(l, i)
       IN IF c = 91 \/ c = 33
            THEN [thrown |-> FALSE, type |-> FILTER_TYPE_OTHERS, line |-> l]
          ELSE IF c = 47 \/ c = 58 \/ c = 94 \/ c = 64 \/ c = 124
            THEN parseNetworkFilter(l)
          ELSE IF c = 35 THEN parseCosmeticFilter(l, i)
          ELSE Classify(l, i + 1)

parseFilter(l) ==
  IF Len(l) = 0
    THEN [thrown |-> FALSE, type |-> FILTER_TYPE_OTHERS, line |-> l]
    ELSE Classify(l, 0)

(***************************************************************************)
(* Inputs: lines made of at most n tokens.                                 *)
(***************************************************************************)
RECURSIVE Concat(_)
Concat(ts) == IF ts = <<>> THEN <<>> ELSE Head(ts) \o Concat(Tail(ts))

TokenLines(tokens, n) ==
  { Concat(ts) : ts \in UNION { [1..k -> tokens] : k \in 0..n } }

ParseTokens ==
  { <<"a">>, <<" ">>, <<"$">>, <<"=">>, <<",">>, <<"\\">>, <<"|">>,
    <<"@", "@">>, <<"#">> }

NoDetails == [thrown |-> FALSE, type |-> FILTER_TYPE_OTHERS, line |-> <<"-">>]

HostsIdle ==
  /\ list = <<>>
  /\ pos = 0
  /\ hostnames = <<>>
  /\ exceptions = <<>>
  /\ logged = 0
  /\ strict = FALSE
  /\ output = <<>>

CheckIdle ==
  /\ diffs = <<>>
  /\ text = <<>>
  /\ di = 0
  /\ rediffs = <<>>

hostsVars == <<list, pos, hostnames, exceptions, logged, strict, output>>

(***************************************************************************)
(* parseFilter applied to one line.                                        *)
(***************************************************************************)
InitParse ==
  /\ line \in TokenLines(ParseTokens, MaxParseTokens)
  /\ details = NoDetails
  /\ pc = "parse"
  /\ CheckIdle
  /\ HostsIdle

\* details = parseFilter(line); a SyntaxError is kept as the thrown value.
Parse ==
  /\ pc = "parse"
  /\ details' = parseFilter(line)
  /\ pc' = "parsed"
  /\ UNCHANGED <<line, diffs, text, di, rediffs>>
  /\ UNCHANGED hostsVars

SpecParse == InitParse /\ [][Parse]_vars

IsNetwork(d) == d.thrown = FALSE /\ d.type = FILTER_TYPE_NETWORK

(***************************************************************************)
(* transformers                                                            *)
(***************************************************************************)
isRegexpPattern(d) ==
  CharCodeAt(d.pattern, 0) = 47 /\ CharCodeAt(d.pattern, Len(d.pattern) - 1) = 47

isPathnamePattern(c) == c = 124 \/ c = 35 \/ c = 47 \/ c = 63 \/ c = 38

isAlphabet(c) ==
  LET u == IF c >= 97 THEN c - 32 ELSE c
  IN u >= 65 /\ u <= 90

isNumeric(c) == c >= 48 /\ c <= 57

\* The interior loop of transformToHostnamePattern from i up to stop:
\* "reject" for a return null, else whether a dot was seen.
RECURSIVE InteriorScan(_, _, _, _)
InteriorScan(p, i, stop, hasDot) ==
  IF i >= stop THEN (IF hasDot THEN "dot" ELSE "nodot")
  ELSE LET c == CharCodeAt(p, i)
       IN IF isPathnamePattern(c) \/ c = 42 THEN "reject"
          ELSE IF c = 46
            THEN (IF CharCodeAt(p, i + 1) = 46 THEN "reject"
                  ELSE InteriorScan(p, i + 1, stop, TRUE))
          ELSE InteriorScan(p, i + 1, stop, hasDot)

transformToHostnamePattern(d) ==
  LET p == d.pattern
      n == Len(p)
      o == IF CharCodeAt(p, n - 1) = 94 THEN -2 ELSE -1
  IN IF \/ isRegexpPattern(d)
        \/ d.matchEndOfAddress
        \/ d.matchBeginningOfAddress
        \/ n < 3
       THEN Null
     ELSE IF isNumeric(CharCodeAt(p, 0)) = FALSE /\ isAlphabet(CharCodeAt(p, 0)) = FALSE
       THEN Null
     ELSE IF isAlphabet(CharCodeAt(p, n + o)) = FALSE
       THEN Null
     ELSE IF InteriorScan(p, 1, n + o, FALSE) # "dot"
       THEN Null
     ELSE Slice(p, 0, IF CharCodeAt(p, n - 1) = 94 THEN n - 1 ELSE n)

(***************************************************************************)
(* compilers                                                               *)
(***************************************************************************)
ThirdParty == <<"t", "h", "i", "r", "d", "-", "p", "a", "r", "t", "y">>
FirstParty == <<"f", "i", "r", "s", "t", "-", "p", "a", "r", "t", "y">>
XmlHttpRequest ==
  <<"x", "m", "l", "h", "t", "t", "p", "r", "e", "q", "u", "e", "s", "t">>

isThirdpartyShortOnly(opt) == opt = <<"3", "p">>

isThirdpartyConstraint(opt) == opt = <<"3", "p">> \/ opt = ThirdParty

\* A Set in insertion order: add, delete, has.
SetHas(s, x) == \E j \in 1..Len(s) : s[j] = x
SetAdd(s, x) == IF SetHas(s, x) THEN s ELSE Append(s, x)
SetDelete(s, x) == SelectSeq(s, LAMBDA y : y # x)

\* exceptions.add(hostname); hostnames.delete(hostname)
Except(st, h) ==
  [st EXCEPT !.exceptions = SetAdd(@, h), !.hostnames = SetDelete(@, h)]

CatchDiscards(st) ==
  [st EXCEPT !.logged = @ + 1, !.hostnames = <<>>]

\* The catch block: one console.error, and the loop goes on.
Catch(st) == [st EXCEPT !.logged = @ + 1]

\* The path-level exception for the pattern cut at l, the offset of its
\* first '/', and h the hostname of the cut pattern.
CompilePathException(st, l, h) ==
  IF l = -1 THEN st
  ELSE IF h = Null THEN st
  ELSE Except(st, h)

\* The pattern of d cut at its first '/'.
PathCut(d) == [d EXCEPT !.pattern = Slice(d.pattern, 0, IndexOf(d.pattern, "/"))]

\* The exception branch for the record d and its hostname h.
CompileException(st, d, h, s) ==
  IF s = FALSE /\ h = Null
    THEN CompilePathException(st, IndexOf(d.pattern, "/"),
           IF IndexOf(d.pattern, "/") = -1 THEN Null
           ELSE transformToHostnamePattern(PathCut(d)))
    ELSE Except(st, h)

\* The blocking branch for the record d and its hostname h # null.
CompileBlock(st, d, h, s) ==
  IF s = FALSE /\ \E i \in 1..Len(d.modifiers) :
                    isThirdpartyConstraint(d.modifiers[i].opt)
    THEN Except(st, h)
    ELSE [st EXCEPT !.hostnames = SetAdd(@, h)]

\* The loop body for a network filter d with hostname h.
CompileNetwork(st, d, h, s) ==
  IF d.isException THEN CompileException(st, d, h, s)
  ELSE IF h # Null THEN CompileBlock(st, d, h, s)
  ELSE st

\* The loop body once parseFilter has returned d or thrown.
CompileParsed(st, d, s) ==
  IF d.thrown THEN Catch(st)
  ELSE IF d.type # FILTER_TYPE_NETWORK THEN st
  ELSE CompileNetwork(st, d, transformToHostnamePattern(d), s)

\* One iteration of the loop of compileHosts on the line l, from the sets
\* and the report count in st, with opts.strict = s.
CompileLine(st, l, s) == CompileParsed(st, parseFilter(l), s)

HostsPrefix == <<"1", "2", "7", ".", "0", ".", "0", ".", "1", " ">>

\* The output lines, one per member of hostnames.
HostsOutput(hs) == [j \in 1..Len(hs) |-> HostsPrefix \o hs[j]]

EmptySets == [hostnames |-> <<>>, exceptions |-> <<>>, logged |-> 0]

\* The whole loop of compileHosts over the lines ls.
RECURSIVE CompileLines(_, _, _)
CompileLines(st, ls, s) ==
  IF ls = <<>> THEN st
  ELSE CompileLines(CompileLine(st, Head(ls), s), Tail(ls), s)

(***************************************************************************)
(* Inputs of compileHosts: lists of at most MaxLines lines.                *)
(***************************************************************************)
HostA == <<"a", ".", "b">>
HostC == <<"c", ".", "d">>
InputHosts == {HostA, HostC}

BlockLine(h) == <<"|", "|">> \o h \o <<"^">>
ExceptionLine(h) == <<"@", "@", "|", "|">> \o h \o <<"^">>
PathExceptionLine(h) == <<"@", "@", "|", "|">> \o h \o <<"/", "p", "^">>
ShortThirdPartyLine(h) == <<"|", "|">> \o h \o <<"^", "$", "3", "p">>
LongThirdPartyLine(h) == <<"|", "|">> \o h \o <<"^", "$", "x", ",">> \o ThirdParty
MalformedLine(h) == h \o <<"#", "?", "#", "x">>

HostLines ==
  { BlockLine(HostA), BlockLine(HostC), ExceptionLine(HostA),
    PathExceptionLine(HostA), ShortThirdPartyLine(HostA),
    LongThirdPartyLine(HostC), MalformedLine(HostA),
    HostA \o <<"#", "#", "x">>,
    <<"|", "|">> \o HostA \o <<"^", "$", "3", "p", "x">>,
    <<"!", "c">> }

HostLists == UNION { [1..n -> HostLines] : n \in 1..MaxLines }

InitHosts ==
  /\ list \in HostLists
  /\ strict \in BOOLEAN
  /\ pos = 0
  /\ hostnames = <<>>
  /\ exceptions = <<>>
  /\ logged = 0
  /\ output = <<>>
  /\ pc = "fold"
  /\ line = <<>>
  /\ details = NoDetails
  /\ CheckIdle

Sets == [hostnames |-> hostnames, exceptions |-> exceptions, logged |-> logged]

\* The sets and the report count after an iteration are those of st.
SetsBecome(st) ==
  /\ hostnames' = st.hostnames
  /\ exceptions' = st.exceptions
  /\ logged' = st.logged

\* One iteration of the for loop of compileHosts.
FoldLine ==
  /\ pc = "fold"
  /\ pos < Len(list)
  /\ SetsBecome(CompileLine(Sets, list[pos + 1], strict))
  /\ pos' = pos + 1
  /\ UNCHANGED <<list, strict, output, pc>>
  /\ UNCHANGED <<line, details, diffs, text, di, rediffs>>

\* The end of compileHosts: the output lines are built and returned.
ReturnHosts ==
  /\ pc = "fold"
  /\ pos = Len(list)
  /\ output' = HostsOutput(hostnames)
  /\ pc' = "done"
  /\ UNCHANGED <<list, strict, pos, hostnames, exceptions, logged>>
  /\ UNCHANGED <<line, details, diffs, text, di, rediffs>>

SpecHosts == InitHosts /\ [][FoldLine \/ ReturnHosts]_vars

(***************************************************************************)
(* Properties of compileHosts.                                             *)
(***************************************************************************)
\* The line folded by the last FoldLine step, and the line the next one folds.
Folding == pc = "fold" /\ pos < Len(list)
NextLine == list[pos + 1]

\* The hostnames of a Set, null left aside.
Named(s) == SelectSeq(s, LAMBDA y : y # Null)

\* C1: with strict = false, once "||h^" and then "@@||h^" are folded, h is
\* absent from the blocked set and the output and present in the excepted set;
\* once "@@||h^" and then "||h^" are folded, h is in the blocked set and in
\* the output.
C1_ExceptionOrdering ==
  \A h \in InputHosts :
    (pc = "done" /\ strict = FALSE /\ Len(list) = 2) =>
      /\ (list = <<BlockLine(h), ExceptionLine(h)>>) =>
            /\ ~SetHas(hostnames, h)
            /\ ~SetHas(output, HostsPrefix \o h)
            /\ SetHas(exceptions, h)
      /\ (list = <<ExceptionLine(h), BlockLine(h)>>) =>
            /\ SetHas(hostnames, h)
            /\ SetHas(output, HostsPrefix \o h)

\* C2: folding the path-level exception "@@||h/p^" adds h to the excepted set
\* and removes it from the blocked set when strict = false, and changes the
\* hostnames of neither set when strict = true.
C2_PathLevelException ==
  [][\A h \in InputHosts :
       (Folding /\ NextLine = PathExceptionLine(h)) =>
         IF strict
           THEN /\ Named(exceptions') = Named(exceptions)
                /\ hostnames' = hostnames
           ELSE /\ SetHas(exceptions', h)
                /\ ~SetHas(hostnames', h)]_vars

\* The hostname extracted from the line l, a network filter.
HostnameOf(l) == transformToHostnamePattern(parseFilter(l))

\* The line is a network filter that is no exception, its hostname extraction
\* yields a hostname, and one of its modifiers is named exactly "3p" or
\* "third-party".
IsThirdPartyBlock(l) ==
  LET d == parseFilter(l)
  IN /\ d.thrown = FALSE
     /\ d.type = FILTER_TYPE_NETWORK
     /\ d.isException = FALSE
     /\ transformToHostnamePattern(d) # Null
     /\ \E i \in 1..Len(d.modifiers) :
          d.modifiers[i].opt \in {<<"3", "p">>, ThirdParty}

\* C3: folding a non-exception line with hostname h and a modifier named "3p"
\* or "third-party" adds h to the excepted set and leaves h out of the blocked
\* set when strict = false; it adds h to the blocked set and leaves the
\* excepted set unchanged when strict = true.
C3_ThirdPartyPromotion ==
  [][(Folding /\ IsThirdPartyBlock(NextLine)) =>
       IF strict
         THEN /\ SetHas(hostnames', HostnameOf(NextLine))
              /\ exceptions' = exceptions
         ELSE /\ SetHas(exceptions', HostnameOf(NextLine))
              /\ ~SetHas(hostnames', HostnameOf(NextLine))]_vars

\* C3 witness: h was blocked, then a third-party line for h was folded with
\* strict = false and h moved to the excepted set.
C3_Witness ==
  /\ strict = FALSE
  /\ pos = 2
  /\ list[1] = BlockLine(HostA)
  /\ IsThirdPartyBlock(list[2])
  /\ HostnameOf(list[2]) = HostA
  /\ SetHas(exceptions, HostA)
  /\ ~SetHas(hostnames, HostA)

\* The line makes parseFilter throw.
IsMalformed(l) == parseFilter(l).thrown

WellFormed(ls) == SelectSeq(ls, LAMBDA l : ~IsMalformed(l))
Malformed(ls) == SelectSeq(ls, LAMBDA l : IsMalformed(l))

\* C4: malformed lines change neither set, are reported once each, and do not
\* stop the fold: after any number of lines both sets are those of the same
\* lines with the malformed ones removed, and the output returned is the
\* output for the input with the malformed lines removed.
C4_MalformedLinesSkipped ==
  LET done == SubSeq(list, 1, pos)
      clean == CompileLines(EmptySets, WellFormed(done), strict)
  IN /\ hostnames = clean.hostnames
     /\ exceptions = clean.exceptions
     /\ logged = Len(Malformed(done))
     /\ pc = "done" =>
          output = HostsOutput(
                     CompileLines(EmptySets, WellFormed(list), strict).hostnames)

\* C4 witness: a malformed line between two blocking lines was reported and
\* both hostnames are in the output.
C4_Witness ==
  /\ pc = "done"
  /\ list = <<BlockLine(HostA), MalformedLine(HostA), BlockLine(HostC)>>
  /\ logged = 1
  /\ output = <<HostsPrefix \o HostA, HostsPrefix \o HostC>>

(***************************************************************************)
(* formatters                                                              *)
(***************************************************************************)
DIFF_TYPE_DELETE == 0
DIFF_TYPE_CREATE == 1

FILTER_MODIFIER_TYPE_TABLE ==
  << <<<<"1", "p">>, FirstParty>>,
     <<<<"3", "p">>, ThirdParty>>,
     <<<<"x", "h", "r">>, XmlHttpRequest>> >>

\* A diff [rule, DIFF_TYPE_DELETE, index, length].
Delete(rule, index, length) ==
  [rule |-> rule, type |-> DIFF_TYPE_DELETE, index |-> index,
   length |-> length, name |-> <<>>]

\* A diff [rule, DIFF_TYPE_CREATE, index, name].
Create(rule, index, name) ==
  [rule |-> rule, type |-> DIFF_TYPE_CREATE, index |-> index,
   length |-> 0, name |-> name]

\* The white space String.prototype.trim removes; of the characters of the
\* model only the space (DEL is white space for isWhitespace alone).
IsTrimmed(ch) == ch = " "

RECURSIVE TrimStart(_)
TrimStart(s) ==
  IF s # <<>> /\ IsTrimmed(Head(s)) THEN TrimStart(Tail(s)) ELSE s

RECURSIVE TrimEnd(_)
TrimEnd(s) ==
  IF s # <<>> /\ IsTrimmed(s[Len(s)])
    THEN TrimEnd(SubSeq(s, 1, Len(s) - 1)) ELSE s

Trim(s) == TrimEnd(TrimStart(s))

\* The first loop of format: the offset of the first character that is no
\* white space, the length of the line when there is none.
RECURSIVE LeadingEnd(_, _)
LeadingEnd(l, i) ==
  IF i >= Len(l) THEN i
  ELSE IF isWhitespace(CharCodeAt(l, i)) = FALSE THEN i
  ELSE LeadingEnd(l, i + 1)

\* The second loop of format: the offset of the last character that is no
\* white space, -1 when there is none.
RECURSIVE TrailingStart(_, _)
TrailingStart(l, i) ==
  IF i <= -1 THEN i
  ELSE IF isWhitespace(CharCodeAt(l, i)) = FALSE THEN i
  ELSE TrailingStart(l, i - 1)

LeadingDiffs(l) ==
  LET i == LeadingEnd(l, 0)
  IN IF i # 0 THEN <<Delete("no-whitespaces", 0, i)>> ELSE <<>>

TrailingDiffs(l) ==
  LET i == TrailingStart(l, Len(l) - 1)
  IN IF i # Len(l) - 1
       THEN <<Delete("no-whitespaces", i, Len(l) - i)>> ELSE <<>>

\* The two white space diffs of the string s with marker m = [from, to].
TrimDiffs(rule, s, m) ==
  (IF Len(s) # Len(TrimStart(s))
     THEN <<Delete(rule, m[1], Len(s) - Len(TrimStart(s)))>> ELSE <<>>)
  \o
  (IF Len(s) # Len(TrimEnd(s))
     THEN <<Delete(rule, m[2] - (Len(s) - Len(TrimEnd(s))),
                   Len(s) - Len(TrimEnd(s)))>>
     ELSE <<>>)

\* The alias loop: the delete and create of the first alias opt trims to.
RECURSIVE AliasDiffs(_, _, _)
AliasDiffs(opt, m, t) ==
  IF t > Len(FILTER_MODIFIER_TYPE_TABLE) THEN <<>>
  ELSE IF Trim(opt) = FILTER_MODIFIER_TYPE_TABLE[t][1]
    THEN <<Delete("full-modifier-name", m[1], m[2] - m[1]),
           Create("full-modifier-name", m[1], FILTER_MODIFIER_TYPE_TABLE[t][2])>>
  ELSE AliasDiffs(opt, m, t + 1)

\* The diffs of one modifier.
ModifierDiffs(mod) ==
  TrimDiffs("no-modifier-whitespaces", mod.opt, mod.marker[1])
  \o AliasDiffs(mod.opt, mod.marker[1], 1)
  \o (IF mod.val = Null THEN <<>>
      ELSE TrimDiffs("no-modifier-value-whitespaces", mod.val, mod.marker[2]))

RECURSIVE ModifiersDiffs(_, _)
ModifiersDiffs(mods, c) ==
  IF c > Len(mods) THEN <<>>
  ELSE ModifierDiffs(mods[c]) \o ModifiersDiffs(mods, c + 1)

format(d) ==
  LeadingDiffs(d.line) \o TrailingDiffs(d.line)
  \o (IF d.type = FILTER_TYPE_NETWORK
        THEN ModifiersDiffs(d.modifiers, 1) ELSE <<>>)

\* fix, a delete applied: the line without [index, index + length).
ApplyDelete(l, d) ==
  Slice(l, 0, d.index) \o SliceFrom(l, d.index + d.length)

\* fix, a create applied: the line with name put in at index.
ApplyCreate(l, d) ==
  Slice(l, 0, d.index) \o d.name \o SliceFrom(l, d.index)

\* fix, the inner loop after the delete d: the diff e (a later one) re-based.
RebaseDelete(e, d) ==
  IF e.type = DIFF_TYPE_DELETE /\ d.index + d.length > e.index
    THEN [e EXCEPT !.index = IF e.index > d.index THEN d.index ELSE e.index,
                   !.length = e.length - d.length]
  ELSE IF e.index > d.index
    THEN [e EXCEPT !.index = e.index - d.length]
  ELSE e

\* fix, the inner loop after the create d: the diff e (d itself or a later
\* one) re-based.
RebaseCreate(e, d) ==
  IF e.type = DIFF_TYPE_DELETE
    THEN [e EXCEPT !.index = e.index + Len(d.name),
                   !.length = e.length + Len(d.name)]
    ELSE [e EXCEPT !.index = e.index + Len(d.name)]

(***************************************************************************)
(* check applied to one line: parseFilter, format, fix edit by edit, and   *)
(* the corrected line parsed and formatted again.                          *)
(***************************************************************************)
CheckTokens ==
  { <<"a">>, <<" ">>, <<"$">>, <<"3", "p">>, <<",">>, <<"=">>, <<"#">> }

InitCheck ==
  /\ line \in TokenLines(CheckTokens, MaxCheckTokens)
  /\ details = NoDetails
  /\ pc = "parse"
  /\ CheckIdle
  /\ HostsIdle

\* check does not catch: a SyntaxError of parseFilter ends the run.
Abort ==
  /\ pc = "parsed"
  /\ details.thrown
  /\ pc' = "aborted"
  /\ UNCHANGED <<line, details, diffs, text, di, rediffs>>
  /\ UNCHANGED hostsVars

\* diffs = format(details), and fix is entered with the line.
Format ==
  /\ pc = "parsed"
  /\ details.thrown = FALSE
  /\ diffs' = format(details)
  /\ text' = line
  /\ di' = 1
  /\ pc' = "fix"
  /\ UNCHANGED <<line, details, rediffs>>
  /\ UNCHANGED hostsVars

\* fix, one pass of the outer loop on a delete.
FixDelete ==
  /\ pc = "fix"
  /\ di <= Len(diffs)
  /\ diffs[di].type = DIFF_TYPE_DELETE
  /\ text' = ApplyDelete(text, diffs[di])
  /\ diffs' = [k \in 1..Len(diffs) |->
                 IF k > di THEN RebaseDelete(diffs[k], diffs[di]) ELSE diffs[k]]
  /\ di' = di + 1
  /\ UNCHANGED <<line, details, rediffs, pc>>
  /\ UNCHANGED hostsVars

\* fix, one pass of the outer loop on a create.
FixCreate ==
  /\ pc = "fix"
  /\ di <= Len(diffs)
  /\ diffs[di].type = DIFF_TYPE_CREATE
  /\ text' = ApplyCreate(text, diffs[di])
  /\ diffs' = [k \in 1..Len(diffs) |->
                 IF k >= di THEN RebaseCreate(diffs[k], diffs[di]) ELSE diffs[k]]
  /\ di' = di + 1
  /\ UNCHANGED <<line, details, rediffs, pc>>
  /\ UNCHANGED hostsVars

\* fix returns the line.
FixReturn ==
  /\ pc = "fix"
  /\ di > Len(diffs)
  /\ pc' = "fixed"
  /\ UNCHANGED <<line, details, diffs, text, di, rediffs>>
  /\ UNCHANGED hostsVars

\* The corrected line is parsed and formatted again.
Recheck ==
  /\ pc = "fixed"
  /\ parseFilter(text).thrown = FALSE
  /\ rediffs' = format(parseFilter(text))
  /\ pc' = "rechecked"
  /\ UNCHANGED <<line, details, diffs, text, di>>
  /\ UNCHANGED hostsVars

SpecCheck ==
  InitCheck /\ [][Parse \/ Abort \/ Format \/ FixDelete \/ FixCreate
                  \/ FixReturn \/ Recheck]_vars

(***************************************************************************)
(* Properties of format and fix.                                           *)
(***************************************************************************)
\* C5: the corrected line is a fixed point of formatting: formatting it again
\* gives the empty edit list.
C5_FixReachesFixedPoint == pc = "rechecked" => rediffs = <<>>

\* The only diffs of the record are alias rewrites, and there is one.
OnlyAliasDefects(d) ==
  /\ d.type = FILTER_TYPE_NETWORK
  /\ format(d) # <<>>
  /\ \A j \in 1..Len(format(d)) : format(d)[j].rule = "full-modifier-name"

IsAlias(opt) ==
  \E t \in 1..Len(FILTER_MODIFIER_TYPE_TABLE) : FILTER_MODIFIER_TYPE_TABLE[t][1] = opt

FullName(opt) ==
  FILTER_MODIFIER_TYPE_TABLE[
    CHOOSE t \in 1..Len(FILTER_MODIFIER_TYPE_TABLE) :
      FILTER_MODIFIER_TYPE_TABLE[t][1] = opt][2]

\* The line l with the name of each of the modifiers c..1 that is an alias
\* replaced by its full name, all other characters kept.
RECURSIVE AliasesReplaced(_, _, _)
AliasesReplaced(l, mods, c) ==
  IF c = 0 THEN l
  ELSE LET m == mods[c].marker[1]
           r == IF IsAlias(mods[c].opt)
                  THEN SubSeq(l, 1, m[1]) \o FullName(mods[c].opt)
                       \o SubSeq(l, m[2] + 1, Len(l))
                  ELSE l
       IN AliasesReplaced(r, mods, c - 1)

\* C6: for a network filter whose only defects are alias modifier names, the
\* corrected line is the line with each alias name replaced by its full name
\* and every other character unchanged.
C6_AliasRewrite ==
  (pc = "fixed" /\ OnlyAliasDefects(details)) =>
    text = AliasesReplaced(line, details.modifiers, Len(details.modifiers))

\* The number of whitespace characters the line starts with.
LeadingRun(l) ==
  Cardinality({n \in 1..Len(l) : \A j \in 1..n : isWhitespace(CharCodeAt(l, j - 1))})

\* The number of whitespace characters the line ends with.
TrailingRun(l) ==
  Cardinality({n \in 1..Len(l) :
                \A j \in (Len(l) - n + 1)..Len(l) : isWhitespace(CharCodeAt(l, j - 1))})

\* format has just returned its edits and fix has applied none of them.
Formatted == pc = "fix" /\ di = 1

\* The place of the trailing-whitespace edit in the list format returns: it
\* follows the leading-whitespace edit when there is one.
TrailingAt(l) == IF LeadingRun(l) > 0 THEN 2 ELSE 1

\* C11: for a line that ends with whitespace, format emits a Delete that
\* starts at the first trailing whitespace character and whose length is the
\* number of trailing whitespace characters; for a line that starts with
\* whitespace, the leading Delete starts at 0 and its length is the number of
\* leading whitespace characters.  Stated for the lines that have a character
\* other than whitespace, where the two runs are apart.
C11_WhitespaceDeletesExact ==
  (Formatted /\ LeadingRun(line) < Len(line)) =>
    /\ LeadingRun(line) > 0 =>
          diffs[1] = Delete("no-whitespaces", 0, LeadingRun(line))
    /\ TrailingRun(line) > 0 =>
          /\ Len(diffs) >= TrailingAt(line)
          /\ diffs[TrailingAt(line)] =
               Delete("no-whitespaces", Len(line) - TrailingRun(line), TrailingRun(line))

\* The number of offsets the ranges [e.index, e.index + e.length) and
\* [d.index, d.index + d.length) share.
Overlap(e, d) ==
  Cardinality({o \in e.index..(e.index + e.length - 1) :
                 d.index <= o /\ o < d.index + d.length})

\* The pending edit e, then f, is re-based after the applied delete d as the
\* rule says: an overlapping delete loses the overlap, an edit after the
\* deleted range moves down by its length, an edit before it stays.
Rebased(e, f, d) ==
  /\ (e.type = DIFF_TYPE_DELETE /\ Overlap(e, d) > 0) =>
        f.length = e.length - Overlap(e, d)
  /\ e.type = DIFF_TYPE_DELETE => f.length >= 0
  /\ e.index >= d.index + d.length => f.index = e.index - d.length
  /\ (e.type = DIFF_TYPE_DELETE /\ e.index + e.length <= d.index) => f = e

\* The edit designates a range of offsets: its offset and length are not
\* negative.
Designates(e) == e.index >= 0 /\ e.length >= 0

\* C12: in fix, when the delete at di is applied, every later edit is
\* re-based: a pending delete that overlaps the deleted range is shrunk by the
\* size of the overlap and its length is not negative, a pending edit after the
\* deleted range has its offset reduced by the deleted length, and a pending
\* delete before the deleted range, designating the same characters as
\* before, is left as it is.  Stated for an applied delete of at least one
\* character and the pending edits that designate a range.
C12_DeleteRebasesPending ==
  [][(/\ pc = "fix"
      /\ di <= Len(diffs)
      /\ diffs[di].type = DIFF_TYPE_DELETE
      /\ Designates(diffs[di])
      /\ diffs[di].length > 0) =>
       \A k \in (di + 1)..Len(diffs) :
         Designates(diffs[k]) => Rebased(diffs[k], diffs'[k], diffs[di])]_vars

(***************************************************************************)
(* Properties of parseNetworkFilter.                                       *)
(***************************************************************************)
Parsed == pc = "parsed" /\ IsNetwork(details)

\* C7: a comma right after a backslash does not end a modifier value: no
\* value marker ends on a comma that a backslash precedes.
C7_EscapedCommaKept ==
  Parsed =>
    \A c \in 1..Len(details.modifiers) :
      LET mod == details.modifiers[c]
      IN mod.val # Null =>
           ~(/\ CharCodeAt(line, mod.marker[2][2]) = 44
             /\ mod.marker[2][2] > mod.marker[2][1]
             /\ CharCodeAt(line, mod.marker[2][2] - 1) = 92)

\* The offset after the leading white space, the optional "@@" and the
\* optional "|" or "||".
AfterPrefix(l) ==
  LET w == LeadingEnd(l, 0)
      e == IF CharCodeAt(l, w) = 64 /\ CharCodeAt(l, w + 1) = 64 THEN w + 2 ELSE w
  IN IF CharCodeAt(l, e) = 124
       THEN (IF CharCodeAt(l, e + 1) = 124 THEN e + 2 ELSE e + 1)
       ELSE e

\* C8: the pattern start marker is the offset of the first character after
\* the leading white space, the optional "@@" and the optional anchor (stated
\* for the lines that are not white space only).
C8_PatternStartAfterPrefix ==
  (Parsed /\ LeadingEnd(line, 0) < Len(line)) =>
    ToInteger(details.markers.pattern[1]) = AfterPrefix(line)

\* C9: the pattern ends at the modifier marker (or the end of the line), one
\* character earlier when, and only when, that character is the "|" of
\* matchEndOfAddress (stated for the lines with a character between the
\* prefix and the marker).
C9_PatternEndAtMarker ==
  (Parsed /\ AnchorScan(line).i < ModifierMarker(line)) =>
    details.markers.pattern[2] =
      IF details.matchEndOfAddress
        THEN ModifierMarker(line) - 1
        ELSE ModifierMarker(line)

\* The lookahead of the claim from k with cand the current candidate: a later
\* "$" becomes the candidate and the lookahead goes on from it; "=" or the
\* end of the line settles the candidate.
RECURSIVE LastCandidate(_, _, _)
LastCandidate(l, cand, k) ==
  IF k >= Len(l) THEN cand
  ELSE IF CharCodeAt(l, k) = 61 THEN cand
  ELSE IF CharCodeAt(l, k) = 36 THEN LastCandidate(l, k, k + 1)
  ELSE LastCandidate(l, cand, k + 1)

\* The "$" the modifier section begins at when scanning from i: the length of
\* the line when there is no "$".
RECURSIVE ExpectedMarker(_, _)
ExpectedMarker(l, i) ==
  IF i >= Len(l) THEN Len(l)
  ELSE IF CharCodeAt(l, i) = 36 THEN LastCandidate(l, i, i + 1)
  ELSE ExpectedMarker(l, i + 1)

\* C10: with several "$" the modifier section begins at the last "$" that
\* precedes the first following "=", or at the last "$" of the line when no
\* "=" follows.
C10_LookaheadRestarts ==
  Parsed => ModifierMarker(line) = ExpectedMarker(line, AnchorScan(line).i)

====
